---- MODULE Spec2Model ----
(***************************************************************************)
(* Model of the steganography codecs of the repository:                    *)
(*   MultiLayerAES        (src/proposed_method.py,         S = 16, B = 16) *)
(*   MultiLayerAESVariant (src/proposed_method_variant.py, S = 32, B = 32) *)
(*   MaxEnergySeam        (src/shmueli_method.py)                          *)
(*   SimpleAESLSB         (src/sultan_method.py)                           *)
(*                                                                         *)
(* Byte strings are kept at 16-byte granularity: a container is a sequence *)
(* of 16-byte blocks followed by a tail of 0..15 bytes.  Every offset the  *)
(* multi-layer code computes (32, 48, block_size, blocks_needed) is a      *)
(* multiple of 16, so the cursor always sits on a block boundary.          *)
(* AES-CBC and PBKDF2 are symbolic: a key is the pair <<password, salt>>,  *)
(* a ciphertext block records the key, the block it was chained to and the *)
(* 16 plaintext bytes; a block decrypts to its plaintext exactly when the  *)
(* key and the preceding block are the ones used to produce it, and to the *)
(* cipher's "garbage" bytes otherwise.                                     *)
(***************************************************************************)
EXTENDS Integers, Sequences, FiniteSets, TLC

----------------------------------------------------------------------------
(* Bounds of the model *)

MaxLayers == 2

NumPasswords == 2

MaxForeignBlocks == 10

(* Program constants *)

AES_BLOCK == 16

IV_SIZE == 16

----------------------------------------------------------------------------
(* The two format variants *)

Variants == {"MultiLayerAES", "MultiLayerAESVariant"}

\* self.block_size
block_size(v) == IF v = "MultiLayerAES" THEN 16 ELSE 32

\* os.urandom(16) / os.urandom(32) for the salt
salt_size(v) == IF v = "MultiLayerAES" THEN 16 ELSE 32

\* the literal 32 / 48 the decoder uses for "salt plus iv"
header_size(v) == IF v = "MultiLayerAES" THEN 32 ELSE 48

\* self.iterations
iterations(v) == IF v = "MultiLayerAES" THEN 100000 ELSE 50000

Passwords == 1..NumPasswords

----------------------------------------------------------------------------
(* Small helpers on sequences *)

Min(a, b) == IF a < b THEN a ELSE b

Max(a, b) == IF a > b THEN a ELSE b

\* python slice s[lo:hi] on a 0-based sequence, clamped like python does
Slice(s, lo, hi) == SubSeq(s, Min(lo, Len(s)) + 1, Min(hi, Len(s)))

Rep(x, n) == [i \in 1..n |-> x]

RECURSIVE Flatten(_)
Flatten(ss) == IF ss = <<>> THEN <<>> ELSE Head(ss) \o Flatten(Tail(ss))

----------------------------------------------------------------------------
(* str.encode('utf-8') and bytes.decode('utf-8'); a str is a sequence of   *)
(* code points                                                             *)

Utf8Char(cp) ==
    IF cp < 128 THEN <<cp>>
    ELSE IF cp < 2048 THEN <<192 + (cp \div 64), 128 + (cp % 64)>>
    ELSE IF cp < 65536
         THEN <<224 + (cp \div 4096), 128 + ((cp \div 64) % 64), 128 + (cp % 64)>>
         ELSE <<240 + (cp \div 262144), 128 + ((cp \div 4096) % 64),
                128 + ((cp \div 64) % 64), 128 + (cp % 64)>>

RECURSIVE Utf8Encode(_)
Utf8Encode(str) ==
    IF str = <<>> THEN <<>> ELSE Utf8Char(Head(str)) \o Utf8Encode(Tail(str))

IsCont(b) == b >= 128 /\ b <= 191

\* the position of the first byte that is not ASCII, Len(bs) + 1 if none
FirstNonAscii(bs) ==
    IF \A i \in 1..Len(bs) : bs[i] < 128 THEN Len(bs) + 1
    ELSE CHOOSE i \in 1..Len(bs) : bs[i] >= 128 /\ \A j \in 1..(i - 1) : bs[j] < 128

\* strict UTF-8 decoding: [ok |-> FALSE] stands for UnicodeDecodeError
RECURSIVE Utf8Decode(_)
Utf8Decode(bs) ==
    LET k == FirstNonAscii(bs)
    IN  IF k > Len(bs) THEN [ok |-> TRUE, str |-> bs]
        ELSE
          LET b1 == bs[k]
              n  == IF b1 >= 194 /\ b1 <= 223 THEN 2
                    ELSE IF b1 >= 224 /\ b1 <= 239 THEN 3
                    ELSE IF b1 >= 240 /\ b1 <= 244 THEN 4
                    ELSE 0
              wellformed ==
                  /\ n > 0
                  /\ Len(bs) >= k + n - 1
                  /\ \A i \in 1..(n - 1) : IsCont(bs[k + i])
                  /\ (b1 = 224) => bs[k + 1] >= 160
                  /\ (b1 = 237) => bs[k + 1] <= 159
                  /\ (b1 = 240) => bs[k + 1] >= 144
                  /\ (b1 = 244) => bs[k + 1] <= 143
              cp == IF n = 2 THEN (b1 - 192) * 64 + (bs[k + 1] - 128)
                    ELSE IF n = 3
                         THEN (b1 - 224) * 4096 + (bs[k + 1] - 128) * 64
                              + (bs[k + 2] - 128)
                         ELSE (b1 - 240) * 262144 + (bs[k + 1] - 128) * 4096
                              + (bs[k + 2] - 128) * 64 + (bs[k + 3] - 128)
          IN  IF ~wellformed THEN [ok |-> FALSE, str |-> <<>>]
              ELSE LET rest == Utf8Decode(SubSeq(bs, k + n, Len(bs)))
                   IN  IF rest.ok
                       THEN [ok |-> TRUE,
                             str |-> SubSeq(bs, 1, k - 1) \o <<cp>> \o rest.str]
                       ELSE rest

\* msg_size.to_bytes(4, 'big')
to_bytes4(n) ==
    <<(n \div 16777216) % 256, (n \div 65536) % 256, (n \div 256) % 256, n % 256>>

\* int.from_bytes(b, 'big') for at most four bytes
RECURSIVE from_bytes(_)
from_bytes(b) ==
    IF b = <<>> THEN 0 ELSE from_bytes(SubSeq(b, 1, Len(b) - 1)) * 256 + b[Len(b)]

----------------------------------------------------------------------------
(* Padding *)

\* pad_data
pad_data(v, data) ==
    LET padding_length == block_size(v) - (Len(data) % block_size(v))
    IN  data \o Rep(padding_length, padding_length)

----------------------------------------------------------------------------
(* Symbolic 16-byte blocks *)

\* the k-th 16-byte part of the value returned by one os.urandom call
RndBlock(n, k) ==
    [t |-> "rnd", id |-> n, part |-> k, key |-> <<>>, prev |-> <<>>, plain |-> <<>>]

\* os.urandom(len)
urandom(len, n) == [k \in 1..(len \div 16) |-> RndBlock(n, k)]

\* PBKDF2(pwd, salt, dkLen=32, count=iterations)
PBKDF2(pwd, salt, count) == <<pwd, salt, count>>

\* one AES block encryption in CBC mode: E_key(plain XOR prev)
CtBlock(key, prev, plain) ==
    [t |-> "ct", id |-> 0, part |-> 0, key |-> key, prev |-> <<prev>>, plain |-> plain]

\* AES.new(key, AES.MODE_CBC, iv).encrypt(padded_data)
RECURSIVE cbc_encrypt(_, _, _)
cbc_encrypt(key, prev, plain) ==
    IF plain = <<>> THEN <<>>
    ELSE LET c == CtBlock(key, prev, SubSeq(plain, 1, AES_BLOCK))
         IN  <<c>> \o cbc_encrypt(key, c, SubSeq(plain, AES_BLOCK + 1, Len(plain)))

(* What the cipher returns for a block that was not produced under the key *)
(* and chaining it is decrypted with: the first 16 bytes of the output.    *)
(* Later garbage blocks repeat the last byte.  Three representatives: a    *)
(* huge size field over bytes that are not UTF-8, a huge size field over   *)
(* ASCII bytes, and a size field of 1 over ASCII bytes.                    *)
GarbageBlocks ==
    { <<64, 0, 0, 0>> \o Rep(255, 12),
      Rep(97, 16),
      <<0, 0, 0, 1>> \o Rep(97, 12) }

GarbageBlock(g, i) == IF i = 1 THEN g ELSE Rep(g[16], 16)

\* AES.new(key, AES.MODE_CBC, iv).decrypt(ciphertext), as a list of blocks
RECURSIVE cbc_decrypt(_, _, _, _, _)
cbc_decrypt(key, prev, ct, g, i) ==
    IF ct = <<>> THEN <<>>
    ELSE LET c == Head(ct)
             p == IF c.t = "ct" /\ c.key = key /\ c.prev = <<prev>>
                  THEN c.plain
                  ELSE GarbageBlock(g, i)
         IN  <<p>> \o cbc_decrypt(key, c, Tail(ct), g, i + 1)

----------------------------------------------------------------------------
(* Byte strings at block granularity *)

Bytes(blocks, tail) == [blocks |-> blocks, tail |-> tail]

EmptyBytes == Bytes(<<>>, 0)

\* len(binary_data)
ByteLen(d) == 16 * Len(d.blocks) + d.tail

\* bytes.hex(): two hex characters per byte
hex(d) == [kind |-> "hex", nchars |-> 2 * ByteLen(d), data |-> d]


\* bytes.fromhex(): fails on an odd number of characters or a non-hex one
fromhex_ok(str) == str.kind = "hex" /\ str.nchars % 2 = 0

fromhex(str) == str.data

\* lsb.reveal found nothing: None
NonePayload == [kind |-> "none", nchars |-> 0, data |-> EmptyBytes]

\* a revealed string that is not a hex string
TextPayload(n) == [kind |-> "text", nchars |-> n, data |-> EmptyBytes]

\* a revealed hex string with an odd number of characters
OddHexPayload(d) == [kind |-> "hex", nchars |-> 2 * ByteLen(d) + 1, data |-> d]

\* python truthiness of the revealed value: "if not hex_data"
falsy(str) == str.kind = "none" \/ str.nchars = 0

----------------------------------------------------------------------------
(* Images *)

\* cv2.imread returned None
NoImage == [h |-> 0, w |-> 0]

Shape(h, w) == [h |-> h, w |-> w]

\* the cover images of the model: capacities 47, 48, 79, 80, 95 and 384 bytes
CoverImages ==
    { NoImage, Shape(9, 14), Shape(8, 16), Shape(4, 53), Shape(5, 43),
      Shape(15, 17), Shape(16, 64) }

\* mutation: the capacity counted in bits
max_bytes_bits(img) == img.h * img.w * 3

\* max_bytes = (img.shape[0] * img.shape[1] * 3) // 8
max_bytes(img) == (img.h * img.w * 3) \div 8

\* stegano lsb.hide: each character of the string takes 8 LSBs, and the
\* string must fit into the height*width*3 LSBs of the image
lsb_hide_ok(img, str) == 8 * str.nchars <= img.h * img.w * 3

\* stegano lsb.reveal: the string hidden in the image, None when there is none
lsb_reveal(file) == file.payload

NoFile == [exists |-> FALSE, origin |-> "none", payload |-> NonePayload]

File(origin, payload) == [exists |-> TRUE, origin |-> origin, payload |-> payload]

----------------------------------------------------------------------------
(* MultiLayerAES.encode / MultiLayerAESVariant.encode *)

\* the body of the loop up to "layer_data = salt + iv + ciphertext"
build_layer(v, pwd, msg, salt_n, iv_n) ==
    LET salt == urandom(salt_size(v), salt_n)
        key == PBKDF2(pwd, salt, iterations(v))
        iv == urandom(IV_SIZE, iv_n)
        msg_bytes == Utf8Encode(msg)
        msg_size == Len(msg_bytes)
        size_block == to_bytes4(msg_size)
        data_to_encrypt == size_block \o msg_bytes
        padded_data == pad_data(v, data_to_encrypt)
        ciphertext == cbc_encrypt(key, iv[1], padded_data)
    IN  salt \o iv \o ciphertext

EncodeStart ==
    [error |-> "none", error_arg |-> 0, events |-> <<>>,
     embedded_data |-> <<>>, layer_lens |-> <<>>, saved |-> FALSE]

LayerEvents == <<"urandom", "PBKDF2", "urandom", "encrypt", "capacity_check">>

\* mutation: when a layer does not fit, what was built so far is written
RECURSIVE encode_loop_partial(_, _, _, _, _, _, _)
encode_loop_partial(v, pwds, msgs, rand, cap, k, acc) ==
    IF k > Min(Len(pwds), Len(msgs)) THEN acc
    ELSE LET layer_data == build_layer(v, pwds[k], msgs[k], rand[2 * k - 1], rand[2 * k])
             layer_len == 16 * Len(layer_data)
             ev == acc.events \o LayerEvents
         IN  IF 16 * Len(acc.embedded_data) + layer_len > cap
             THEN [acc EXCEPT !.error = "capacity", !.error_arg = layer_len,
                              !.events = ev \o <<"hide", "save">>, !.saved = TRUE]
             ELSE encode_loop_partial(v, pwds, msgs, rand, cap, k + 1,
                      [acc EXCEPT !.embedded_data = acc.embedded_data \o layer_data,
                                  !.layer_lens = Append(acc.layer_lens, layer_len),
                                  !.events = ev])

\* the for loop of encode over zip(self.passwords, messages)
RECURSIVE encode_loop(_, _, _, _, _, _, _)
encode_loop(v, pwds, msgs, rand, cap, k, acc) ==
    IF k > Min(Len(pwds), Len(msgs)) THEN acc
    ELSE LET layer_data == build_layer(v, pwds[k], msgs[k], rand[2 * k - 1], rand[2 * k])
             layer_len == 16 * Len(layer_data)
             ev == acc.events \o LayerEvents
         IN  IF 16 * Len(acc.embedded_data) + layer_len > cap
             THEN [acc EXCEPT !.error = "capacity", !.error_arg = layer_len,
                              !.events = ev]
             ELSE encode_loop(v, pwds, msgs, rand, cap, k + 1,
                      [acc EXCEPT !.embedded_data = acc.embedded_data \o layer_data,
                                  !.layer_lens = Append(acc.layer_lens, layer_len),
                                  !.events = ev])

\* mutation: the cover image is read before the counts are compared
encode_run_read_first(v, pwds, img, msgs, rand) ==
    IF img = NoImage
    THEN [EncodeStart EXCEPT !.error = "image", !.events = <<"imread">>]
    ELSE IF Len(msgs) # Len(pwds)
    THEN [EncodeStart EXCEPT !.error = "count", !.events = <<"imread">>]
    ELSE LET built == encode_loop(v, pwds, msgs, rand, max_bytes(img), 1,
                                  [EncodeStart EXCEPT !.events = <<"imread">>])
         IN  IF built.error # "none" THEN built
             ELSE IF ~lsb_hide_ok(img, hex(Bytes(built.embedded_data, 0)))
             THEN [built EXCEPT !.error = "hide",
                                !.events = built.events \o <<"hide">>]
             ELSE [built EXCEPT !.saved = TRUE,
                                !.events = built.events \o <<"hide", "save">>]

\* encode(image_path, messages, output_path)
encode_run(v, pwds, img, msgs, rand) ==
    IF Len(msgs) # Len(pwds)
    THEN [EncodeStart EXCEPT !.error = "count"]
    ELSE IF img = NoImage
    THEN [EncodeStart EXCEPT !.error = "image", !.events = <<"imread">>]
    ELSE LET built == encode_loop(v, pwds, msgs, rand, max_bytes(img), 1,
                                  [EncodeStart EXCEPT !.events = <<"imread">>])
         IN  IF built.error # "none" THEN built
             ELSE IF ~lsb_hide_ok(img, hex(Bytes(built.embedded_data, 0)))
             THEN [built EXCEPT !.error = "hide",
                                !.events = built.events \o <<"hide">>]
             ELSE [built EXCEPT !.saved = TRUE,
                                !.events = built.events \o <<"hide", "save">>]

----------------------------------------------------------------------------
(* MultiLayerAES.decode / MultiLayerAESVariant.decode *)

\* mutation: a layer with too few ciphertext bytes moves the cursor on
decode_layer_exhausted_advance(v, binary_data, pwd, ptr, g) ==
    LET hdr == header_size(v)
        first == ptr \div 16
        salt == SubSeq(binary_data.blocks, first + 1, first + salt_size(v) \div 16)
        iv == binary_data.blocks[first + hdr \div 16]
        remaining == ByteLen(binary_data) - ptr - hdr
        ct_blocks == SubSeq(binary_data.blocks, first + hdr \div 16 + 1,
                            Len(binary_data.blocks))
        key == PBKDF2(pwd, salt, iterations(v))
        padded_plaintext == Flatten(cbc_decrypt(key, iv, ct_blocks, g, 1))
        msg_size == from_bytes(Slice(padded_plaintext, 0, 4))
        msg_data == Slice(padded_plaintext, 4, 4 + msg_size)
        plaintext == Utf8Decode(msg_data)
        total_size == 4 + msg_size
        blocks_needed == ((total_size + block_size(v) - 1) \div block_size(v))
                             * block_size(v)
    IN  IF ptr + hdr >= ByteLen(binary_data)
        THEN [result |-> <<>>, ptr |-> ptr, outcome |-> "no_header", events |-> <<>>]
        ELSE IF remaining < block_size(v)
        THEN [result |-> <<>>, ptr |-> ptr + hdr + block_size(v),
              outcome |-> "no_block", events |-> <<>>]
        ELSE IF remaining % AES_BLOCK # 0
        THEN [result |-> <<>>, ptr |-> ptr + hdr + block_size(v),
              outcome |-> "except", events |-> <<"PBKDF2", "decrypt">>]
        ELSE IF ~plaintext.ok
        THEN [result |-> <<>>, ptr |-> ptr + hdr + block_size(v),
              outcome |-> "except", events |-> <<"PBKDF2", "decrypt">>]
        ELSE [result |-> plaintext.str, ptr |-> ptr + hdr + blocks_needed,
              outcome |-> "ok", events |-> <<"PBKDF2", "decrypt">>]

\* mutation: the fallback step skips the salt and the iv only
decode_layer_short_fallback(v, binary_data, pwd, ptr, g) ==
    LET hdr == header_size(v)
        first == ptr \div 16
        salt == SubSeq(binary_data.blocks, first + 1, first + salt_size(v) \div 16)
        iv == binary_data.blocks[first + hdr \div 16]
        remaining == ByteLen(binary_data) - ptr - hdr
        ct_blocks == SubSeq(binary_data.blocks, first + hdr \div 16 + 1,
                            Len(binary_data.blocks))
        key == PBKDF2(pwd, salt, iterations(v))
        padded_plaintext == Flatten(cbc_decrypt(key, iv, ct_blocks, g, 1))
        msg_size == from_bytes(Slice(padded_plaintext, 0, 4))
        msg_data == Slice(padded_plaintext, 4, 4 + msg_size)
        plaintext == Utf8Decode(msg_data)
        total_size == 4 + msg_size
        blocks_needed == ((total_size + block_size(v) - 1) \div block_size(v))
                             * block_size(v)
    IN  IF ptr + hdr >= ByteLen(binary_data)
        THEN [result |-> <<>>, ptr |-> ptr, outcome |-> "no_header", events |-> <<>>]
        ELSE IF remaining < block_size(v)
        THEN [result |-> <<>>, ptr |-> ptr, outcome |-> "no_block", events |-> <<>>]
        ELSE IF remaining % AES_BLOCK # 0
        THEN [result |-> <<>>, ptr |-> ptr + hdr,
              outcome |-> "except", events |-> <<"PBKDF2", "decrypt">>]
        ELSE IF ~plaintext.ok
        THEN [result |-> <<>>, ptr |-> ptr + hdr,
              outcome |-> "except", events |-> <<"PBKDF2", "decrypt">>]
        ELSE [result |-> plaintext.str, ptr |-> ptr + hdr + blocks_needed,
              outcome |-> "ok", events |-> <<"PBKDF2", "decrypt">>]

\* mutation: the fallback step skips two blocks after salt and iv
decode_layer_long_fallback(v, binary_data, pwd, ptr, g) ==
    LET hdr == header_size(v)
        first == ptr \div 16
        salt == SubSeq(binary_data.blocks, first + 1, first + salt_size(v) \div 16)
        iv == binary_data.blocks[first + hdr \div 16]
        remaining == ByteLen(binary_data) - ptr - hdr
        ct_blocks == SubSeq(binary_data.blocks, first + hdr \div 16 + 1,
                            Len(binary_data.blocks))
        key == PBKDF2(pwd, salt, iterations(v))
        padded_plaintext == Flatten(cbc_decrypt(key, iv, ct_blocks, g, 1))
        msg_size == from_bytes(Slice(padded_plaintext, 0, 4))
        msg_data == Slice(padded_plaintext, 4, 4 + msg_size)
        plaintext == Utf8Decode(msg_data)
        total_size == 4 + msg_size
        blocks_needed == ((total_size + block_size(v) - 1) \div block_size(v))
                             * block_size(v)
    IN  IF ptr + hdr >= ByteLen(binary_data)
        THEN [result |-> <<>>, ptr |-> ptr, outcome |-> "no_header", events |-> <<>>]
        ELSE IF remaining < block_size(v)
        THEN [result |-> <<>>, ptr |-> ptr, outcome |-> "no_block", events |-> <<>>]
        ELSE IF remaining % AES_BLOCK # 0
        THEN [result |-> <<>>, ptr |-> ptr + hdr + 2 * block_size(v),
              outcome |-> "except", events |-> <<"PBKDF2", "decrypt">>]
        ELSE IF ~plaintext.ok
        THEN [result |-> <<>>, ptr |-> ptr + hdr + 2 * block_size(v),
              outcome |-> "except", events |-> <<"PBKDF2", "decrypt">>]
        ELSE [result |-> plaintext.str, ptr |-> ptr + hdr + blocks_needed,
              outcome |-> "ok", events |-> <<"PBKDF2", "decrypt">>]

\* one iteration of "for pwd in passwords"
decode_layer(v, binary_data, pwd, ptr, g) ==
    LET hdr == header_size(v)
        first == ptr \div 16
        salt == SubSeq(binary_data.blocks, first + 1, first + salt_size(v) \div 16)
        iv == binary_data.blocks[first + hdr \div 16]
        remaining == ByteLen(binary_data) - ptr - hdr
        ct_blocks == SubSeq(binary_data.blocks, first + hdr \div 16 + 1,
                            Len(binary_data.blocks))
        key == PBKDF2(pwd, salt, iterations(v))
        padded_plaintext == Flatten(cbc_decrypt(key, iv, ct_blocks, g, 1))
        msg_size == from_bytes(Slice(padded_plaintext, 0, 4))
        msg_data == Slice(padded_plaintext, 4, 4 + msg_size)
        plaintext == Utf8Decode(msg_data)
        total_size == 4 + msg_size
        blocks_needed == ((total_size + block_size(v) - 1) \div block_size(v))
                             * block_size(v)
    IN  IF ptr + hdr >= ByteLen(binary_data)
        THEN [result |-> <<>>, ptr |-> ptr, outcome |-> "no_header", events |-> <<>>]
        ELSE IF remaining < block_size(v)
        THEN [result |-> <<>>, ptr |-> ptr, outcome |-> "no_block", events |-> <<>>]
        ELSE IF remaining % AES_BLOCK # 0
        THEN [result |-> <<>>, ptr |-> ptr + hdr + block_size(v),
              outcome |-> "except", events |-> <<"PBKDF2", "decrypt">>]
        ELSE IF ~plaintext.ok
        THEN [result |-> <<>>, ptr |-> ptr + hdr + block_size(v),
              outcome |-> "except", events |-> <<"PBKDF2", "decrypt">>]
        ELSE [result |-> plaintext.str, ptr |-> ptr + hdr + blocks_needed,
              outcome |-> "ok", events |-> <<"PBKDF2", "decrypt">>]

DecodeStart ==
    [raised |-> "none", results |-> <<>>, ptrs |-> <<>>, outcomes |-> <<>>,
     events |-> <<>>]

\* mutation: the passwords are taken from the end of the list
RECURSIVE decode_loop_reversed(_, _, _, _, _, _, _)
decode_loop_reversed(v, binary_data, passwords, g, i, ptr, acc) ==
    IF i > Len(passwords) THEN acc
    ELSE LET r == decode_layer(v, binary_data, passwords[Len(passwords) + 1 - i],
                               ptr, g)
         IN  decode_loop_reversed(v, binary_data, passwords, g, i + 1, r.ptr,
                 [acc EXCEPT !.results = Append(acc.results, r.result),
                             !.ptrs = Append(acc.ptrs, r.ptr),
                             !.outcomes = Append(acc.outcomes, r.outcome),
                             !.events = acc.events \o r.events])

\* mutation: a layer with no room for salt and iv is skipped without a result
RECURSIVE decode_loop_skip(_, _, _, _, _, _, _)
decode_loop_skip(v, binary_data, passwords, g, i, ptr, acc) ==
    IF i > Len(passwords) THEN acc
    ELSE LET r == decode_layer(v, binary_data, passwords[i], ptr, g)
         IN  decode_loop_skip(v, binary_data, passwords, g, i + 1, r.ptr,
                 IF r.outcome = "no_header" THEN acc
                 ELSE [acc EXCEPT !.results = Append(acc.results, r.result),
                                  !.ptrs = Append(acc.ptrs, r.ptr),
                                  !.outcomes = Append(acc.outcomes, r.outcome),
                                  !.events = acc.events \o r.events])

\* the loop "for pwd in passwords" of decode
RECURSIVE decode_loop(_, _, _, _, _, _, _)
decode_loop(v, binary_data, passwords, g, i, ptr, acc) ==
    IF i > Len(passwords) THEN acc
    ELSE LET r == decode_layer(v, binary_data, passwords[i], ptr, g)
         IN  decode_loop(v, binary_data, passwords, g, i + 1, r.ptr,
                 [acc EXCEPT !.results = Append(acc.results, r.result),
                             !.ptrs = Append(acc.ptrs, r.ptr),
                             !.outcomes = Append(acc.outcomes, r.outcome),
                             !.events = acc.events \o r.events])

\* mutation: with no payload a single empty string is returned
decode_run_single(v, pwds, file, passwords, g) ==
    IF Len(passwords) # Len(pwds)
    THEN [DecodeStart EXCEPT !.raised = "count"]
    ELSE LET hex_data == lsb_reveal(file)
             start == [DecodeStart EXCEPT !.events = <<"reveal">>]
         IN  IF falsy(hex_data)
             THEN [start EXCEPT !.results = <<<<>>>>]
             ELSE IF ~fromhex_ok(hex_data)
             THEN [start EXCEPT !.raised = "fromhex"]
             ELSE decode_loop(v, fromhex(hex_data), passwords, g, 1, 0, start)

\* decode(stego_path, passwords)
decode_run(v, pwds, file, passwords, g) ==
    IF Len(passwords) # Len(pwds)
    THEN [DecodeStart EXCEPT !.raised = "count"]
    ELSE LET hex_data == lsb_reveal(file)
             start == [DecodeStart EXCEPT !.events = <<"reveal">>]
         IN  IF falsy(hex_data)
             THEN [start EXCEPT !.results = Rep(<<>>, Len(passwords))]
             ELSE IF ~fromhex_ok(hex_data)
             THEN [start EXCEPT !.raised = "fromhex"]
             ELSE decode_loop(v, fromhex(hex_data), passwords, g, 1, 0, start)


----------------------------------------------------------------------------
(* Inputs *)

\* the messages of the model: the empty one, an ASCII one, and one of
\* four-byte characters (U+1F600) whose size makes 4 + size equal to the
\* block size of the variant (12 bytes and 28 bytes)
Messages(v) ==
    { <<>>, Rep(97, 3), Rep(128512, (block_size(v) - 4) \div 4) }

RECURSIVE SeqsUpTo(_, _)
SeqsUpTo(S, n) ==
    IF n = 0 THEN {<<>>}
    ELSE LET shorter == SeqsUpTo(S, n - 1)
         IN  shorter \cup { Append(s, x) : s \in { t \in shorter : Len(t) = n - 1 }, x \in S }

\* passwords are opaque: a list is taken up to renaming, each password being
\* one already used or the next unused one
Canonical(pl) ==
    \A i \in 1..Len(pl) :
        \/ pl[i] = 1
        \/ \E j \in 1..(i - 1) : pl[j] = pl[i] - 1

PasswordLists ==
    { pl \in SeqsUpTo(Passwords, MaxLayers) : pl # <<>> /\ Canonical(pl) }

MessageLists(v) == SeqsUpTo(Messages(v), MaxLayers)

\* a password that differs from p
Wrong(p) == (p % NumPasswords) + 1

\* the password lists given to decode: at each position the password of
\* encode or a different one, and lists of another length
DecodeLists(pwds) ==
    { pl \in SeqsUpTo(Passwords, Len(pwds)) :
        /\ Len(pl) = Len(pwds)
        /\ \A k \in 1..Len(pl) : pl[k] \in {pwds[k], Wrong(pwds[k])} }
    \cup {SubSeq(pwds, 1, Len(pwds) - 1), Append(pwds, 1)}

\* the values of the successive os.urandom calls of one encode call: all
\* different, or all the same
RandomStreams ==
    { [k \in 1..(2 * MaxLayers) |-> k], [k \in 1..(2 * MaxLayers) |-> 1] }

\* byte strings of a stego image that this encoder did not write
ForeignBytes ==
    { Bytes(Rep(RndBlock(1, 1), n), t) : n \in 0..MaxForeignBlocks, t \in {0, 8} }

ForeignPayloads ==
    {NonePayload, TextPayload(3), OddHexPayload(EmptyBytes)}
        \cup { hex(d) : d \in ForeignBytes }

----------------------------------------------------------------------------
(* MaxEnergySeam (src/shmueli_method.py) *)

MaxSeamMsgLen == 2

\* self.MAX_MESSAGE_LENGTH = 1000
MAX_MESSAGE_LENGTH == 1000

\* self.END_MARKER = "11111111"
END_MARKER == <<1, 1, 1, 1, 1, 1, 1, 1>>

\* f"{ord(c):08b}": the eight bits of a character code below 256, high bit first
char_bits(c) ==
    [k \in 1..8 |-> (c \div (2 ^ (8 - k))) % 2]

RECURSIVE message_bits(_)
message_bits(message) ==
    IF message = <<>> THEN <<>>
    ELSE char_bits(Head(message)) \o message_bits(Tail(message))

\* bin_msg: the message bits, the end marker, and ljust to len + (8 - len % 8)
bin_msg_of(message) ==
    LET b == message_bits(message) \o END_MARKER
    IN  b \o Rep(0, 8 - (Len(b) % 8))

\* int(byte_str, 2)
RECURSIVE int2(_)
int2(bits) ==
    IF bits = <<>> THEN 0 ELSE 2 * int2(SubSeq(bits, 1, Len(bits) - 1)) + bits[Len(bits)]

Occurs(str, sub, at) ==
    /\ at + Len(sub) <= Len(str)
    /\ \A k \in 1..Len(sub) : str[at + k] = sub[k]

\* mutation: the last occurrence instead of the first
find_last(str, sub) ==
    LET hits == { at \in 0..Len(str) : Occurs(str, sub, at) }
    IN  IF hits = {} THEN -1
        ELSE CHOOSE at \in hits : \A other \in hits : at >= other

\* str.find(sub): the 0-based index of the first occurrence, -1 if none
find(str, sub) ==
    LET hits == { at \in 0..Len(str) : Occurs(str, sub, at) }
    IN  IF hits = {} THEN -1
        ELSE CHOOSE at \in hits : \A other \in hits : at <= other

\* str.rstrip('\x00') on a sequence of character codes
RECURSIVE rstrip0(_)
rstrip0(str) ==
    IF str # <<>> /\ str[Len(str)] = 0 THEN rstrip0(SubSeq(str, 1, Len(str) - 1))
    ELSE str

\* mutation: the first minimum
argmin(seq) ==
    CHOOSE k \in 1..Len(seq) :
        /\ \A m \in 1..Len(seq) : seq[k] <= seq[m]
        /\ \A m \in 1..(k - 1) : seq[m] > seq[k]

\* np.argmax of a sequence: the 1-based position of the first maximum
argmax(seq) ==
    CHOOSE k \in 1..Len(seq) :
        /\ \A m \in 1..Len(seq) : seq[k] >= seq[m]
        /\ \A m \in 1..(k - 1) : seq[m] < seq[k]

\* one cell of the forward pass of _find_seam: cum_energy[i, j] and path[i, j]
\* from cum_energy[:, j - 1], given as the sequence of its rows 0..h-1
forward_cell(energy, h, i, j, prev_cum) ==
    LET offsets == <<Max(i - 1, 0), i, Min(i + 1, h - 1)>>
        prev_energies == <<prev_cum[offsets[1] + 1], prev_cum[offsets[2] + 1],
                           prev_cum[offsets[3] + 1]>>
        max_idx == argmax(prev_energies)
    IN  [cum |-> energy[<<i, j>>] + prev_energies[max_idx],
         path |-> offsets[max_idx]]

\* the inner loop over the rows i of one column j
RECURSIVE forward_column(_, _, _, _, _, _)
forward_column(energy, h, i, j, prev_cum, col) ==
    IF i >= h THEN col
    ELSE forward_column(energy, h, i + 1, j, prev_cum,
                        Append(col, forward_cell(energy, h, i, j, prev_cum)))

RECURSIVE cums(_)
cums(col) ==
    IF col = <<>> THEN <<>> ELSE <<Head(col).cum>> \o cums(Tail(col))

\* the forward pass: the columns 0..w-1 of cum_energy and path
RECURSIVE forward_pass(_, _, _, _, _)
forward_pass(energy, h, w, j, cols) ==
    IF j >= w THEN cols
    ELSE forward_pass(energy, h, w, j + 1,
                      Append(cols, forward_column(energy, h, 0, j, cums(cols[j]), <<>>)))

RECURSIVE first_column(_, _, _)
first_column(energy, h, i) ==
    IF i >= h THEN <<>>
    ELSE <<[cum |-> energy[<<i, 0>>], path |-> 0]>> \o first_column(energy, h, i + 1)

\* the backtracking loop: the seam in the order it is appended, right to left
RECURSIVE backtrack(_, _, _)
backtrack(cols, j, i) ==
    IF j < 0 THEN <<>>
    ELSE <<<<i, j>>>> \o backtrack(cols, j - 1, cols[j + 1][i + 1].path)

Reverse(seq) == [k \in 1..Len(seq) |-> seq[Len(seq) + 1 - k]]

\* mutation: the seam is returned in the order of the backtracking loop
find_seam_unreversed(energy, h, w) ==
    LET cols == forward_pass(energy, h, w, 1, <<first_column(energy, h, 0)>>)
        start == argmax(cums(cols[w])) - 1
    IN  backtrack(cols, w - 1, start)

\* _find_seam(energy)
find_seam(energy, h, w) ==
    LET cols == forward_pass(energy, h, w, 1, <<first_column(energy, h, 0)>>)
        start == argmax(cums(cols[w])) - 1
    IN  Reverse(backtrack(cols, w - 1, start))

\* mutation: the forward pass accumulates into the caller's array
find_seam_call_inplace(energy, h, w) ==
    LET cols == forward_pass(energy, h, w, 1, <<first_column(energy, h, 0)>>)
    IN  [seam |-> find_seam(energy, h, w),
         energy |-> [p \in DOMAIN energy |-> cols[p[2] + 1][p[1] + 1].cum]]

\* a call self._find_seam(energy): the seam returned and the caller's energy
\* array after the call; the forward pass works on cum_energy = energy.copy()
find_seam_call(energy, h, w) ==
    [seam |-> find_seam(energy, h, w), energy |-> energy]

\* mutation: the bit goes to the first channel only
embed_first_channel(pixels, seam, bin_msg) ==
    [p \in DOMAIN pixels |->
        IF \E idx \in 1..Min(Len(seam), Len(bin_msg)) : seam[idx] = p
        THEN LET idx == CHOOSE idx \in 1..Min(Len(seam), Len(bin_msg)) : seam[idx] = p
             IN  [c \in 1..3 |->
                    IF c = 1 THEN (pixels[p][c] - (pixels[p][c] % 2)) + bin_msg[idx]
                    ELSE pixels[p][c]]
        ELSE pixels[p]]

\* the embedding loop of encode: bit idx goes to the LSB of every channel of
\* the pixel at seam position idx
embed(pixels, seam, bin_msg) ==
    [p \in DOMAIN pixels |->
        IF \E idx \in 1..Min(Len(seam), Len(bin_msg)) : seam[idx] = p
        THEN LET idx == CHOOSE idx \in 1..Min(Len(seam), Len(bin_msg)) : seam[idx] = p
             IN  [c \in 1..3 |-> (pixels[p][c] - (pixels[p][c] % 2)) + bin_msg[idx]]
        ELSE pixels[p]]

\* the character loop of decode: one character per 8 bits starting below end_idx
RECURSIVE decode_chars(_, _, _)
decode_chars(bin_str, i, end_idx) ==
    IF i >= end_idx THEN <<>>
    ELSE LET byte_str == Slice(bin_str, i, i + 8)
             padded == byte_str \o Rep(0, 8 - Len(byte_str))
         IN  <<int2(padded)>> \o decode_chars(bin_str, i + 8, end_idx)

\* the unit of the energy values: 1/ENERGY_SCALE of a grey level step
ENERGY_SCALE == 64

\* the integer square root
RECURSIVE isqrt(_)
isqrt(n) ==
    IF n < 2 THEN n
    ELSE LET small == 2 * isqrt(n \div 4)
         IN  IF (small + 1) * (small + 1) > n THEN small ELSE small + 1

\* cv2.cvtColor(img, cv2.COLOR_BGR2GRAY) for one pixel <<B, G, R>>
gray_of(pixel) ==
    (pixel[1] * 1868 + pixel[2] * 9617 + pixel[3] * 4899 + 8192) \div 16384

\* the index cv2 reads for position p outside 0..n-1 (BORDER_REFLECT_101)
reflect101(p, n) ==
    IF n = 1 THEN 0
    ELSE IF p < 0 THEN -p
    ELSE IF p >= n THEN 2 * n - 2 - p
    ELSE p

\* cv2.Scharr(gray, cv2.CV_64F, 1, 0) at row i, column j
Scharr_dx(gray, h, w, i, j) ==
    LET up == reflect101(i - 1, h)
        down == reflect101(i + 1, h)
        left == reflect101(j - 1, w)
        right == reflect101(j + 1, w)
    IN  3 * (gray[<<up, right>>] - gray[<<up, left>>])
          + 10 * (gray[<<i, right>>] - gray[<<i, left>>])
          + 3 * (gray[<<down, right>>] - gray[<<down, left>>])

\* cv2.Scharr(gray, cv2.CV_64F, 0, 1) at row i, column j
Scharr_dy(gray, h, w, i, j) ==
    LET up == reflect101(i - 1, h)
        down == reflect101(i + 1, h)
        left == reflect101(j - 1, w)
        right == reflect101(j + 1, w)
    IN  3 * (gray[<<down, left>>] - gray[<<up, left>>])
          + 10 * (gray[<<down, j>>] - gray[<<up, j>>])
          + 3 * (gray[<<down, right>>] - gray[<<up, right>>])

\* cv2.magnitude(dx, dy) of one pixel, in units of 1/ENERGY_SCALE, rounded down
magnitude(dx, dy) == isqrt((dx * dx + dy * dy) * ENERGY_SCALE * ENERGY_SCALE)

\* cv2.cvtColor(img, cv2.COLOR_BGR2GRAY)
cvtColor(pixels) == [p \in DOMAIN pixels |-> gray_of(pixels[p])]

\* _calculate_energy(gray)
calculate_energy(gray, h, w) ==
    [p \in DOMAIN gray |->
        magnitude(Scharr_dx(gray, h, w, p[1], p[2]),
                  Scharr_dy(gray, h, w, p[1], p[2]))]

\* the pictures of the cover images: how far the pixel of row i, column j is
\* above the darkest pixel, in steps of two grey levels
texture(name, i, j) ==
    CASE name = "flat" -> 0
      [] name = "hash" -> ((i + 1) * (j + 2)) % 7
      [] name = "wave" -> ((i + j) % 3) * 2

\* the cover images of the seam method: height, width, the darkest pixel
\* <<B, G, R>> and the picture; h = 0 stands for an unreadable file
SeamCovers ==
    { [h |-> 0, w |-> 0, pixel |-> <<0, 0, 0>>, texture |-> "flat"] }
      \cup { [h |-> hw[1], w |-> hw[2], pixel |-> px, texture |-> tx] :
               hw \in {<<2, 16>>, <<3, 20>>, <<2, 24>>, <<3, 4>>, <<1, 8>>, <<4, 1>>},
               px \in {<<100, 100, 100>>, <<101, 64, 1>>},
               tx \in {"flat", "hash", "wave"} }

\* cv2.imread(image_path) of a cover
Pixels(cover) ==
    [p \in (0..(cover.h - 1)) \X (0..(cover.w - 1)) |->
        [c \in 1..3 |-> cover.pixel[c] + 2 * texture(cover.texture, p[1], p[2])]]

\* the character codes of the seam messages: NUL, 'A', DEL and a non-ASCII one
SeamChars == {0, 65, 127, 233}

SeamMessages == SeqsUpTo(SeamChars, MaxSeamMsgLen)

SeamEncodeStart ==
    [error |-> "none", events |-> <<>>, seam |-> <<>>, energy |-> <<>>,
     energy_after |-> <<>>, pixels |-> <<>>, saved |-> FALSE]

\* mutation: the message is validated after the embedding loop
seam_encode_run_check_late(cover, message) ==
    IF cover.h = 0
    THEN [SeamEncodeStart EXCEPT !.error = "image", !.events = <<"imread">>]
    ELSE LET bin_msg == bin_msg_of(message)
             energy == calculate_energy(cvtColor(Pixels(cover)), cover.h, cover.w)
             found == find_seam_call(energy, cover.h, cover.w)
             done == [SeamEncodeStart EXCEPT
                        !.events = <<"imread", "energy", "find_seam", "embed">>,
                        !.seam = found.seam, !.energy = energy,
                        !.energy_after = found.energy,
                        !.pixels = embed(Pixels(cover), found.seam, bin_msg)]
         IN  IF \E k \in 1..Len(message) : ~(message[k] < 128)
             THEN [done EXCEPT !.error = "ascii",
                               !.events = done.events \o <<"ascii_check">>]
             ELSE [done EXCEPT !.saved = TRUE,
                               !.events = done.events \o <<"ascii_check", "imwrite">>]

\* mutation: a message longer than MAX_MESSAGE_LENGTH, or whose bits do not
\* fit the seam, is rejected
seam_encode_run_length_check(cover, message) ==
    IF cover.h = 0
    THEN [SeamEncodeStart EXCEPT !.error = "image", !.events = <<"imread">>]
    ELSE IF \E k \in 1..Len(message) : ~(message[k] < 128)
    THEN [SeamEncodeStart EXCEPT !.error = "ascii",
                                 !.events = <<"imread", "ascii_check">>]
    ELSE IF Len(message) > MAX_MESSAGE_LENGTH \/ Len(bin_msg_of(message)) > cover.w
    THEN [SeamEncodeStart EXCEPT !.error = "length",
                                 !.events = <<"imread", "ascii_check", "length_check">>]
    ELSE LET bin_msg == bin_msg_of(message)
             energy == calculate_energy(cvtColor(Pixels(cover)), cover.h, cover.w)
             found == find_seam_call(energy, cover.h, cover.w)
         IN  [SeamEncodeStart EXCEPT
                 !.events = <<"imread", "ascii_check", "energy", "find_seam",
                              "embed", "imwrite">>,
                 !.seam = found.seam, !.energy = energy,
                 !.energy_after = found.energy,
                 !.pixels = embed(Pixels(cover), found.seam, bin_msg),
                 !.saved = TRUE]

\* encode(image_path, message, output_path)
seam_encode_run(cover, message) ==
    IF cover.h = 0
    THEN [SeamEncodeStart EXCEPT !.error = "image", !.events = <<"imread">>]
    ELSE IF \E k \in 1..Len(message) : ~(message[k] < 128)
    THEN [SeamEncodeStart EXCEPT !.error = "ascii",
                                 !.events = <<"imread", "ascii_check">>]
    ELSE LET bin_msg == bin_msg_of(message)
             energy == calculate_energy(cvtColor(Pixels(cover)), cover.h, cover.w)
             found == find_seam_call(energy, cover.h, cover.w)
         IN  [SeamEncodeStart EXCEPT
                 !.events = <<"imread", "ascii_check", "energy", "find_seam",
                              "embed", "imwrite">>,
                 !.seam = found.seam, !.energy = energy,
                 !.energy_after = found.energy,
                 !.pixels = embed(Pixels(cover), found.seam, bin_msg),
                 !.saved = TRUE]

\* mutation: the bit string is cut at the end marker before it is grouped
seam_decode_run_truncated(file) ==
    LET energy == calculate_energy(cvtColor(file.pixels), file.h, file.w)
        found == find_seam_call(energy, file.h, file.w)
        seam == found.seam
        bin_str == [k \in 1..Len(seam) |-> file.pixels[seam[k]][1] % 2]
        marker == find(bin_str, END_MARKER)
        end_idx == IF marker = -1 THEN Len(bin_str) ELSE marker
    IN  [energy |-> energy, energy_after |-> found.energy, seam |-> seam,
         bin_str |-> bin_str, end_idx |-> end_idx,
         result |-> rstrip0(decode_chars(SubSeq(bin_str, 1, end_idx), 0, end_idx))]

\* decode(stego_path)
seam_decode_run(file) ==
    LET energy == calculate_energy(cvtColor(file.pixels), file.h, file.w)
        found == find_seam_call(energy, file.h, file.w)
        seam == found.seam
        bin_str == [k \in 1..Len(seam) |-> file.pixels[seam[k]][1] % 2]
        marker == find(bin_str, END_MARKER)
        end_idx == IF marker = -1 THEN Len(bin_str) ELSE marker
    IN  [energy |-> energy, energy_after |-> found.energy, seam |-> seam,
         bin_str |-> bin_str, end_idx |-> end_idx,
         result |-> rstrip0(decode_chars(bin_str, 0, end_idx))]

----------------------------------------------------------------------------
(* SimpleAESLSB (src/sultan_method.py) *)

\* self.salt = b'sultan_2023_salt'
SULTAN_SALT == "sultan_2023_salt"

\* self.key = PBKDF2(password, self.salt, dkLen=32, count=100000)
simple_key(password) == PBKDF2(password, SULTAN_SALT, 100000)

\* str.isspace() of one character: the characters str.strip() removes
IsSpace(c) ==
    c \in (9..13) \cup (28..32) \cup {133, 160, 5760} \cup (8192..8202)
            \cup {8232, 8233, 8239, 8287, 12288}

RECURSIVE py_rstrip(_)
py_rstrip(str) ==
    IF str # <<>> /\ IsSpace(str[Len(str)])
    THEN py_rstrip(SubSeq(str, 1, Len(str) - 1))
    ELSE str

RECURSIVE py_lstrip(_)
py_lstrip(str) ==
    IF str # <<>> /\ IsSpace(Head(str)) THEN py_lstrip(Tail(str)) ELSE str

\* str.strip()
py_strip(str) == py_lstrip(py_rstrip(str))

\* padded = message + ' '*(16 - len(message)%16)
space_pad(message) == message \o Rep(32, 16 - (Len(message) % 16))

SimpleEncodeStart ==
    [error |-> "none", padded |-> <<>>, plain_len |-> 0, ciphertext |-> <<>>,
     saved |-> FALSE]

\* encode(image_path, message, output_path)
simple_encode_run(key, img, message, iv_n) ==
    LET iv == urandom(IV_SIZE, iv_n)
        padded == space_pad(message)
        plain == Utf8Encode(padded)
        start == [SimpleEncodeStart EXCEPT !.padded = padded,
                                           !.plain_len = Len(plain)]
        ciphertext == iv \o cbc_encrypt(key, iv[1], plain)
    IN  IF Len(plain) % AES_BLOCK # 0
        THEN [start EXCEPT !.error = "encrypt"]
        ELSE IF img = NoImage
        THEN [start EXCEPT !.error = "image", !.ciphertext = ciphertext]
        ELSE IF ~lsb_hide_ok(img, hex(Bytes(ciphertext, 0)))
        THEN [start EXCEPT !.error = "hide", !.ciphertext = ciphertext]
        ELSE [start EXCEPT !.ciphertext = ciphertext, !.saved = TRUE]

\* decode(stego_path)
simple_decode_run(key, file, g) ==
    LET hex_data == lsb_reveal(file)
        ciphertext == fromhex(hex_data)
        iv == ciphertext.blocks[1]
        decrypted == Flatten(cbc_decrypt(key, iv, Tail(ciphertext.blocks), g, 1))
        text == Utf8Decode(decrypted)
    IN  IF hex_data.kind = "none" \/ ~fromhex_ok(hex_data)
        THEN [raised |-> "fromhex", result |-> <<>>]
        ELSE IF ciphertext.tail # 0 \/ Len(ciphertext.blocks) = 0
        THEN [raised |-> "decrypt", result |-> <<>>]
        ELSE IF ~text.ok
        THEN [raised |-> "utf8", result |-> <<>>]
        ELSE [raised |-> "none", result |-> py_strip(text.str)]

\* the messages given to SimpleAESLSB.encode: short ones over space, 'a',
\* newline; 15 and 16 characters; and two-byte characters (U+00E9)
SimpleMessages ==
    SeqsUpTo({32, 97}, 2)
      \cup { <<10, 97>>, <<97, 10>>, <<97, 32, 97>>, <<233>>, Rep(97, 15),
             Rep(97, 16), Rep(233, 16) }

----------------------------------------------------------------------------
(* State *)

VARIABLES
    method,          \* the class of the codec object
    self_passwords,  \* self.passwords
    output_file,     \* the file at output_path / stego_path
    enc,             \* the last encode call: arguments and outcome
    dec,             \* the last decode call: arguments and outcome
    seam_file,       \* the image the seam method wrote at output_path
    seam_enc,        \* the last MaxEnergySeam.encode call
    seam_dec,        \* the last MaxEnergySeam.decode call
    simple_file,     \* the image SimpleAESLSB wrote at output_path
    simple_enc,      \* the last SimpleAESLSB.encode call
    simple_dec       \* the last SimpleAESLSB.decode call

vars == <<method, self_passwords, output_file, enc, dec, seam_file, seam_enc, seam_dec,
          simple_file, simple_enc, simple_dec>>

multi_vars == <<output_file, enc, dec>>

seam_vars == <<seam_file, seam_enc, seam_dec>>

simple_vars == <<simple_file, simple_enc, simple_dec>>

NoEncode ==
    [called |-> FALSE, image |-> NoImage, messages |-> <<>>, error |-> "none",
     error_arg |-> 0, events |-> <<>>, layer_lens |-> <<>>, saved |-> FALSE]

NoDecode ==
    [called |-> FALSE, passwords |-> <<>>, garbage |-> <<>>, raised |-> "none",
     results |-> <<>>, ptrs |-> <<>>, outcomes |-> <<>>, events |-> <<>>]

NoSeamFile == [exists |-> FALSE, h |-> 0, w |-> 0, pixels |-> <<>>]

NoSeamEncode ==
    [called |-> FALSE,
     cover |-> [h |-> 0, w |-> 0, pixel |-> <<0, 0, 0>>, texture |-> "flat"],
     message |-> <<>>, error |-> "none", events |-> <<>>, energy |-> <<>>,
     energy_after |-> <<>>, seam |-> <<>>]

NoSeamDecode ==
    [called |-> FALSE, repeated |-> FALSE, energy |-> <<>>, energy_after |-> <<>>,
     seam |-> <<>>, prev_seam |-> <<>>, bin_str |-> <<>>, end_idx |-> 0,
     result |-> <<>>]

NoSimpleEncode ==
    [called |-> FALSE, image |-> NoImage, message |-> <<>>, error |-> "none",
     padded |-> <<>>, plain_len |-> 0]

NoSimpleDecode ==
    [called |-> FALSE, password |-> 0, raised |-> "none", result |-> <<>>]

\* __init__ of the four classes
Init ==
    /\ \/ method \in Variants /\ self_passwords \in PasswordLists
       \/ method = "MaxEnergySeam" /\ self_passwords = <<>>
       \/ method = "SimpleAESLSB" /\ self_passwords = <<1>>
    /\ simple_file = NoFile
    /\ simple_enc = NoSimpleEncode
    /\ simple_dec = NoSimpleDecode
    /\ output_file = NoFile
    /\ enc = NoEncode
    /\ dec = NoDecode
    /\ seam_file = NoSeamFile
    /\ seam_enc = NoSeamEncode
    /\ seam_dec = NoSeamDecode

\* method.encode(image_path, messages, output_path)
MultiLayer_encode ==
    /\ method \in Variants
    /\ ~enc.called
    /\ ~output_file.exists
    /\ \E img \in CoverImages, msgs \in MessageLists(method), rand \in RandomStreams :
         LET r == encode_run(method, self_passwords, img, msgs, rand)
         IN  /\ enc' = [called |-> TRUE, image |-> img, messages |-> msgs,
                        error |-> r.error, error_arg |-> r.error_arg,
                        events |-> r.events, layer_lens |-> r.layer_lens,
                        saved |-> r.saved]
             /\ output_file' = IF r.saved
                               THEN File("encode", hex(Bytes(r.embedded_data, 0)))
                               ELSE output_file
    /\ UNCHANGED <<method, self_passwords, dec, seam_vars, simple_vars>>

\* a stego image that comes from somewhere else is put at stego_path
ForeignStego ==
    /\ method \in Variants
    /\ ~enc.called
    /\ ~output_file.exists
    /\ \E p \in ForeignPayloads : output_file' = File("foreign", p)
    /\ UNCHANGED <<method, self_passwords, enc, dec, seam_vars, simple_vars>>

\* the stego image loses the end of its payload: its last 16 bytes (t = 0)
\* or its last 8 bytes (t = 8)
Truncate ==
    /\ method \in Variants
    /\ output_file.exists
    /\ output_file.origin = "encode"
    /\ ~dec.called
    /\ \E t \in {0, 8} :
         LET blocks == output_file.payload.data.blocks
         IN  /\ Len(blocks) >= 1
             /\ output_file' = File("truncated",
                    hex(Bytes(SubSeq(blocks, 1, Len(blocks) - 1), t)))
    /\ UNCHANGED <<method, self_passwords, enc, dec, seam_vars, simple_vars>>

\* method.decode(stego_path, passwords)
MultiLayer_decode ==
    /\ method \in Variants
    /\ output_file.exists
    /\ ~dec.called
    /\ \E passwords \in DecodeLists(self_passwords), g \in GarbageBlocks :
         LET r == decode_run(method, self_passwords, output_file, passwords, g)
         IN  dec' = [called |-> TRUE, passwords |-> passwords, garbage |-> g,
                     raised |-> r.raised, results |-> r.results, ptrs |-> r.ptrs,
                     outcomes |-> r.outcomes, events |-> r.events]
    /\ UNCHANGED <<method, self_passwords, output_file, enc, seam_vars, simple_vars>>

\* MaxEnergySeam.encode(image_path, message, output_path)
Seam_encode ==
    /\ method = "MaxEnergySeam"
    /\ ~seam_enc.called
    /\ \E cover \in SeamCovers, message \in SeamMessages :
         LET r == seam_encode_run(cover, message)
         IN  /\ seam_enc' = [called |-> TRUE, cover |-> cover, message |-> message,
                             error |-> r.error, events |-> r.events,
                             energy |-> r.energy, energy_after |-> r.energy_after,
                             seam |-> r.seam]
             /\ seam_file' = IF r.saved
                             THEN [exists |-> TRUE, h |-> cover.h, w |-> cover.w,
                                   pixels |-> r.pixels]
                             ELSE seam_file
    /\ UNCHANGED <<method, self_passwords, multi_vars, seam_dec, simple_vars>>

\* mutation: decode walks the seam that encode found on the cover
Seam_decode_cached ==
    /\ method = "MaxEnergySeam"
    /\ seam_file.exists
    /\ LET r == seam_decode_run(seam_file)
           bin_str == [k \in 1..Len(seam_enc.seam) |->
                          seam_file.pixels[seam_enc.seam[k]][1] % 2]
           marker == find(bin_str, END_MARKER)
           end_idx == IF marker = -1 THEN Len(bin_str) ELSE marker
       IN  seam_dec' = [called |-> TRUE, repeated |-> seam_dec.called,
                        energy |-> r.energy, energy_after |-> r.energy_after,
                        seam |-> seam_enc.seam, prev_seam |-> seam_dec.seam,
                        bin_str |-> bin_str, end_idx |-> end_idx,
                        result |-> rstrip0(decode_chars(bin_str, 0, end_idx))]
    /\ UNCHANGED <<method, self_passwords, multi_vars, seam_file, seam_enc, simple_vars>>

\* MaxEnergySeam.decode(stego_path), any number of times (repeated tells a
\* call that is not the first, prev_seam is the seam of the call before)
Seam_decode ==
    /\ method = "MaxEnergySeam"
    /\ seam_file.exists
    /\ LET r == seam_decode_run(seam_file)
       IN  seam_dec' = [called |-> TRUE, repeated |-> seam_dec.called,
                        energy |-> r.energy, energy_after |-> r.energy_after,
                        seam |-> r.seam, prev_seam |-> seam_dec.seam,
                        bin_str |-> r.bin_str, end_idx |-> r.end_idx,
                        result |-> r.result]
    /\ UNCHANGED <<method, self_passwords, multi_vars, seam_file, seam_enc, simple_vars>>

\* SimpleAESLSB.encode(image_path, message, output_path)
Simple_encode ==
    /\ method = "SimpleAESLSB"
    /\ ~simple_enc.called
    /\ \E img \in CoverImages, message \in SimpleMessages :
         LET r == simple_encode_run(simple_key(self_passwords[1]), img, message, 1)
         IN  /\ simple_enc' = [called |-> TRUE, image |-> img, message |-> message,
                               error |-> r.error, padded |-> r.padded,
                               plain_len |-> r.plain_len]
             /\ simple_file' = IF r.saved
                               THEN File("encode", hex(Bytes(r.ciphertext, 0)))
                               ELSE simple_file
    /\ UNCHANGED <<method, self_passwords, multi_vars, seam_vars, simple_dec>>

\* SimpleAESLSB(password).decode(stego_path): by the object that encoded, or
\* by one constructed with another password
Simple_decode ==
    /\ method = "SimpleAESLSB"
    /\ simple_file.exists
    /\ ~simple_dec.called
    /\ \E password \in Passwords, g \in GarbageBlocks :
         LET r == simple_decode_run(simple_key(password), simple_file, g)
         IN  simple_dec' = [called |-> TRUE, password |-> password,
                            raised |-> r.raised, result |-> r.result]
    /\ UNCHANGED <<method, self_passwords, multi_vars, seam_vars, simple_file,
                   simple_enc>>

Next ==
    \/ MultiLayer_encode
    \/ ForeignStego
    \/ Truncate
    \/ MultiLayer_decode
    \/ Seam_encode
    \/ Seam_decode
    \/ Simple_encode
    \/ Simple_decode

Spec == Init /\ [][Next]_vars

(* The three kinds of codec object share no state: each one taken alone *)

MultiLayerInit == Init /\ method \in Variants

MultiLayerNext ==
    \/ MultiLayer_encode
    \/ ForeignStego
    \/ Truncate
    \/ MultiLayer_decode

MultiLayerSpec == MultiLayerInit /\ [][MultiLayerNext]_vars

SeamInit == Init /\ method = "MaxEnergySeam"

SeamNext ==
    \/ Seam_encode
    \/ Seam_decode

SeamSpec == SeamInit /\ [][SeamNext]_vars

SimpleInit == Init /\ method = "SimpleAESLSB"

SimpleNext ==
    \/ Simple_encode
    \/ Simple_decode

SimpleSpec == SimpleInit /\ [][SimpleNext]_vars

----------------------------------------------------------------------------
(* Properties of the multi-layer codecs *)

MultiLayer == method \in Variants

\* the raw byte capacity of an image: floor(height * width * 3 / 8)
Capacity(img) == (img.h * img.w * 3) \div 8

\* the byte length of the layer of a message: salt, iv and the size field
\* and message padded to the next multiple of the block size
FramedLen(v, msg) ==
    LET S == IF v = "MultiLayerAES" THEN 16 ELSE 32
        B == IF v = "MultiLayerAES" THEN 16 ELSE 32
        n == 4 + Len(Utf8Encode(msg))
    IN  S + 16 + n + (B - (n % B))

RECURSIVE ContainerLen(_, _, _)
ContainerLen(v, msgs, k) ==
    IF k = 0 THEN 0 ELSE ContainerLen(v, msgs, k - 1) + FramedLen(v, msgs[k])

\* the layers at which the container first exceeds the capacity
FirstOver(v, msgs, cap) ==
    { k \in 1..Len(msgs) :
        /\ ContainerLen(v, msgs, k) > cap
        /\ \A j \in 1..(k - 1) : ContainerLen(v, msgs, j) <= cap }

CountOf(e, events) == Cardinality({ i \in 1..Len(events) : events[i] = e })

\* the encode call got as far as building layers
EncodeBuilt == MultiLayer /\ enc.called /\ enc.error \notin {"count", "image"}

\* the decode call ran on the image that the encode call wrote
DecodedOwn ==
    /\ MultiLayer /\ enc.called /\ enc.saved
    /\ output_file.origin = "encode"
    /\ dec.called /\ dec.raised = "none"

(* C1: decode of the image written by encode, with the same passwords in   *)
(* the same order, returns exactly the list of messages.                   *)
C1_RoundTrip ==
    (DecodedOwn /\ dec.passwords = self_passwords) => dec.results = enc.messages

(* C2: encode fails with the capacity error, reporting the byte length of  *)
(* layer k, exactly when k is the first layer with which the container     *)
(* exceeds floor(height*width*3/8) bytes; a container of at most that many *)
(* bytes never fails so.                                                   *)
C2_CapacityError ==
    EncodeBuilt =>
        LET over == FirstOver(method, enc.messages, Capacity(enc.image))
        IN  IF over # {}
            THEN \A k \in over :
                    /\ enc.error = "capacity"
                    /\ enc.error_arg = FramedLen(method, enc.messages[k])
                    /\ Len(enc.layer_lens) = k - 1
                    /\ CountOf("capacity_check", enc.events) = k
            ELSE enc.error # "capacity"

\* the second layer makes the container one byte longer than the capacity
C2_Witness ==
    /\ EncodeBuilt
    /\ enc.error = "capacity"
    /\ ContainerLen(method, enc.messages, 1) <= Capacity(enc.image)
    /\ ContainerLen(method, enc.messages, 2) = Capacity(enc.image) + 1

(* C3: an encode call whose container is exactly as long as the capacity   *)
(* succeeds and writes the stego image.                                    *)
C3_ExactCapacitySucceeds ==
    (/\ EncodeBuilt
     /\ enc.messages # <<>>
     /\ ContainerLen(method, enc.messages, Len(enc.messages)) = Capacity(enc.image))
        => (enc.error = "none" /\ enc.saved /\ output_file.exists)

(* C4: a failing encode call writes no output file; the write is the last  *)
(* step and comes after every layer has passed the capacity check.         *)
C4_NoPartialCommit ==
    (MultiLayer /\ enc.called) =>
        /\ enc.error # "none" =>
              (~enc.saved /\ ~output_file.exists /\ CountOf("save", enc.events) = 0)
        /\ \A i \in 1..Len(enc.events) :
              enc.events[i] = "save" =>
                  /\ i = Len(enc.events)
                  /\ enc.error = "none"
                  /\ Len(enc.layer_lens) = Len(self_passwords)
                  /\ CountOf("capacity_check", SubSeq(enc.events, 1, i))
                         = Len(self_passwords)

\* the capacity is exceeded after a first layer was built, and nothing is written
C4_Witness ==
    /\ MultiLayer /\ enc.called
    /\ enc.error = "capacity"
    /\ Len(enc.layer_lens) >= 1
    /\ ~output_file.exists

(* C5: with len(messages) # len(passwords), encode raises the count error  *)
(* before the image is read or anything is drawn or built, and writes      *)
(* nothing.                                                                *)
C5_CountMismatchFirst ==
    (MultiLayer /\ enc.called /\ Len(enc.messages) # Len(self_passwords)) =>
        (enc.error = "count" /\ enc.events = <<>> /\ ~enc.saved /\ ~output_file.exists)

\* a count mismatch on an image that could not even be read
C5_Witness ==
    /\ MultiLayer /\ enc.called
    /\ Len(enc.messages) # Len(self_passwords)
    /\ enc.image = NoImage
    /\ enc.error = "count"

(* C6: where the password given to decode for layer k differs from the one *)
(* used at encode time, the result at position k is the empty string.      *)
C6_WrongPasswordEmpty ==
    DecodedOwn =>
        \A k \in 1..Len(dec.passwords) :
            dec.passwords[k] # self_passwords[k] => dec.results[k] = <<>>

CommonPrefix(p, q) ==
    CHOOSE k \in 0..Len(p) :
        /\ \A i \in 1..k : p[i] = q[i]
        /\ k < Len(p) => p[k + 1] # q[k + 1]

(* C7: two password lists of the same length that agree on the first k     *)
(* positions give the same results and the same cursor at those positions. *)
C7_EarlierLayersUnaffected ==
    (MultiLayer /\ dec.called /\ dec.raised = "none") =>
        \A other \in DecodeLists(self_passwords) :
            Len(other) = Len(dec.passwords) =>
                LET k == CommonPrefix(dec.passwords, other)
                    r == decode_run(method, self_passwords, output_file, other,
                                    dec.garbage)
                IN  /\ SubSeq(r.results, 1, k) = SubSeq(dec.results, 1, k)
                    /\ SubSeq(r.ptrs, 1, Min(k, Len(r.ptrs)))
                           = SubSeq(dec.ptrs, 1, Min(k, Len(dec.ptrs)))

\* the first password is right and recovers its message, the second is wrong
C7_Witness ==
    /\ DecodedOwn
    /\ Len(dec.passwords) = 2
    /\ dec.passwords[1] = self_passwords[1]
    /\ dec.passwords[2] # self_passwords[2]
    /\ dec.results[1] = enc.messages[1]
    /\ dec.results[1] # <<>>
    /\ dec.results[2] # enc.messages[2]

(* C8: decode returns exactly len(passwords) strings; every iteration      *)
(* appends one result, the empty string unless the layer was parsed.       *)
C8_Arity ==
    (MultiLayer /\ dec.called /\ dec.raised = "none") =>
        /\ Len(dec.results) = Len(dec.passwords)
        /\ Len(dec.passwords) = Len(self_passwords)
        /\ ~falsy(output_file.payload) =>
              /\ Len(dec.outcomes) = Len(dec.passwords)
              /\ \A i \in 1..Len(dec.outcomes) :
                    dec.outcomes[i] # "ok" => dec.results[i] = <<>>

\* one layer failed and the next one was never reached
C8_Witness ==
    /\ MultiLayer /\ dec.called /\ dec.raised = "none"
    /\ Len(dec.outcomes) = 2
    /\ dec.outcomes[1] = "except"
    /\ dec.outcomes[2] = "no_header"

(* C9: when reveal returns nothing or the empty string, decode returns     *)
(* len(passwords) empty strings and derives no key and decrypts nothing.   *)
C9_NoPayload ==
    (MultiLayer /\ dec.called /\ dec.raised # "count" /\ falsy(output_file.payload)) =>
        /\ dec.raised = "none"
        /\ dec.results = Rep(<<>>, Len(dec.passwords))
        /\ Len(dec.passwords) = Len(self_passwords)
        /\ CountOf("PBKDF2", dec.events) = 0
        /\ CountOf("decrypt", dec.events) = 0

\* no payload and two passwords
C9_Witness ==
    /\ MultiLayer /\ dec.called /\ dec.raised = "none"
    /\ output_file.payload = NonePayload
    /\ Len(dec.passwords) = 2

\* the cursor before iteration k of the decode loop
PtrBefore(k) == IF k = 1 THEN 0 ELSE dec.ptrs[k - 1]

\* the offset at which encode placed layer k + 1: the lengths of layers 1..k
RECURSIVE LayerEnd(_, _)
LayerEnd(lens, k) == IF k = 0 THEN 0 ELSE LayerEnd(lens, k - 1) + lens[k]

\* the decode loop ran over a payload
DecodeLooped ==
    /\ MultiLayer /\ dec.called /\ dec.raised = "none"
    /\ ~falsy(output_file.payload)

(* C14: when decode parses layer k of the image encode wrote, from the     *)
(* offset where encode placed it and with its password, the cursor ends at *)
(* the offset where encode placed layer k + 1.                             *)
C14_CursorAligned ==
    DecodedOwn =>
        \A k \in 1..Len(dec.passwords) :
            (/\ dec.passwords[k] = self_passwords[k]
             /\ dec.outcomes[k] = "ok"
             /\ PtrBefore(k) = LayerEnd(enc.layer_lens, k - 1))
                => dec.ptrs[k] = LayerEnd(enc.layer_lens, k)

\* too few bytes remain from the cursor for salt, iv and one block
Exhausted(k) ==
    ByteLen(output_file.payload.data) - PtrBefore(k)
        < salt_size(method) + IV_SIZE + block_size(method)

(* C15: a layer for which too few bytes remain from the cursor yields the  *)
(* empty string and leaves the cursor where it is, and so does every layer *)
(* after it in the same call.                                              *)
C15_StopOnExhaustion ==
    DecodeLooped =>
        \A k \in 1..Len(dec.passwords) :
            Exhausted(k) =>
                \A j \in k..Len(dec.passwords) :
                    /\ dec.results[j] = <<>>
                    /\ dec.ptrs[j] = PtrBefore(k)
                    /\ dec.outcomes[j] \in {"no_header", "no_block"}

\* the first layer is parsed, the second has salt and iv but no full block,
\* and the data is not exhausted at the first layer
C15_Witness ==
    /\ DecodeLooped
    /\ Len(dec.passwords) = 2
    /\ dec.outcomes = <<"ok", "no_block">>
    /\ dec.results[1] # <<>>
    /\ Exhausted(2) /\ ~Exhausted(1)

(* C16: a layer whose parsing raises yields exactly one empty string and   *)
(* moves the cursor by S + 16 + B (48 and 80 bytes), the loop goes on with *)
(* the next password, and the cursor never decreases.                      *)
C16_FallbackStep ==
    DecodeLooped =>
        /\ Len(dec.results) = Len(dec.passwords)
        /\ Len(dec.ptrs) = Len(dec.passwords)
        /\ \A k \in 1..Len(dec.passwords) :
              /\ dec.ptrs[k] >= PtrBefore(k)
              /\ dec.outcomes[k] = "except" =>
                    /\ dec.results[k] = <<>>
                    /\ dec.ptrs[k] = PtrBefore(k) + salt_size(method) + IV_SIZE
                                         + block_size(method)
                    /\ dec.ptrs[k] = PtrBefore(k)
                                         + (IF method = "MultiLayerAES" THEN 48 ELSE 80)

\* the first layer raises and the second is parsed after the fallback step
C16_Witness ==
    /\ DecodedOwn
    /\ Len(dec.passwords) = 2
    /\ dec.outcomes = <<"except", "ok">>
    /\ dec.results[2] = enc.messages[2]
    /\ dec.results[2] # <<>>

(* C17: for every string reveal can return and every password list of the  *)
(* configured length, decode returns a list of results and does not raise. *)
C17_DecodeNeverRaises ==
    (MultiLayer /\ dec.called /\ Len(dec.passwords) = Len(self_passwords)) =>
        /\ dec.raised = "none"
        /\ Len(dec.results) = Len(dec.passwords)

\* the byte length of the ciphertext encode produced for layer k
CiphertextLen(k) == enc.layer_lens[k] - header_size(method)

(* C24: when parsing raises for layer k at the offset where encode placed  *)
(* it: if encode's ciphertext for layer k is exactly B bytes long (which   *)
(* is when 4 + size_k < B), the fallback step S + 16 + B puts the cursor   *)
(* at the start of layer k + 1, and layer k + 1 is decoded to its message  *)
(* when its password is the right one; if the ciphertext is longer than B  *)
(* bytes, the cursor ends strictly inside layer k.                         *)
C24_Resync ==
    DecodedOwn =>
        \A k \in 1..Len(dec.passwords) :
            (/\ dec.outcomes[k] = "except"
             /\ PtrBefore(k) = LayerEnd(enc.layer_lens, k - 1))
                => /\ CiphertextLen(k) = block_size(method)
                        <=> 4 + Len(Utf8Encode(enc.messages[k])) < block_size(method)
                   /\ CiphertextLen(k) = block_size(method) =>
                        /\ dec.ptrs[k] = LayerEnd(enc.layer_lens, k)
                        /\ (k < Len(dec.passwords)
                              /\ dec.passwords[k + 1] = self_passwords[k + 1])
                             => /\ dec.outcomes[k + 1] = "ok"
                                /\ dec.results[k + 1] = enc.messages[k + 1]
                   /\ CiphertextLen(k) > block_size(method) =>
                        /\ dec.ptrs[k] > LayerEnd(enc.layer_lens, k - 1)
                        /\ dec.ptrs[k] < LayerEnd(enc.layer_lens, k)

\* a wrong password for a first layer of one ciphertext block makes its
\* parsing raise, and the second layer, of two ciphertext blocks, is decoded
\* with its own password from the offset the fallback step reached
C24_Witness ==
    /\ DecodedOwn
    /\ Len(dec.passwords) = 2
    /\ dec.passwords[1] # self_passwords[1]
    /\ dec.passwords[2] = self_passwords[2]
    /\ dec.outcomes = <<"except", "ok">>
    /\ CiphertextLen(1) = block_size(method)
    /\ CiphertextLen(2) = 2 * block_size(method)
    /\ dec.ptrs[1] = enc.layer_lens[1]
    /\ dec.results[2] = enc.messages[2]

----------------------------------------------------------------------------
(* Properties of the seam method *)

\* encode wrote an image, decode read it along the seam encode used, and the
\* message with its end marker fits the seam
SeamRoundTripCase ==
    /\ method = "MaxEnergySeam"
    /\ seam_enc.called /\ seam_enc.error = "none"
    /\ seam_dec.called
    /\ seam_dec.seam = seam_enc.seam
    /\ \A k \in 1..Len(seam_enc.message) : seam_enc.message[k] \in 0..127
    /\ Len(seam_enc.message) <= (seam_enc.cover.w \div 8) - 1

(* C10 as stated: for every ASCII message of length <= floor(width/8) - 1, *)
(* decode returns the message exactly when it reads along the same seam.   *)
C10_SeamRoundTripAnyAscii ==
    SeamRoundTripCase => seam_dec.result = seam_enc.message

(* C10 as amended: for every ASCII message of length <= floor(width/8) - 1 *)
(* that does not end with the NUL character, decode returns the message    *)
(* exactly when it reads along the same seam.                              *)
C10_SeamRoundTrip ==
    (/\ SeamRoundTripCase
     /\ (seam_enc.message = <<>>
           \/ seam_enc.message[Len(seam_enc.message)] # 0))
        => seam_dec.result = seam_enc.message

\* a message of two characters that ends with seven 1 bits, on a cover whose
\* LSBs are all 1, read back along the seam of encode
C10_Witness ==
    /\ SeamRoundTripCase
    /\ seam_enc.message = <<0, 127>>
    /\ seam_enc.cover.pixel[1] % 2 = 1
    /\ seam_dec.result = <<0, 127>>

SeamNonAscii ==
    /\ method = "MaxEnergySeam"
    /\ seam_enc.called
    /\ \E k \in 1..Len(seam_enc.message) : seam_enc.message[k] >= 128

(* C12 as stated: encode with a message holding a character of code >= 128 *)
(* fails with the non-ASCII error, before the seam is computed and before  *)
(* any pixel is changed, and writes no file.                               *)
C12_NonAsciiAlways ==
    SeamNonAscii =>
        /\ seam_enc.error = "ascii"
        /\ CountOf("find_seam", seam_enc.events) = 0
        /\ CountOf("embed", seam_enc.events) = 0
        /\ CountOf("imwrite", seam_enc.events) = 0
        /\ ~seam_file.exists

(* C12 as amended: on a cover image that can be read, encode with a        *)
(* message holding a character of code >= 128 fails with the non-ASCII     *)
(* error, before the seam is computed and before any pixel is changed, and *)
(* writes no file.                                                         *)
C12_NonAsciiRejected ==
    (SeamNonAscii /\ seam_enc.cover.h # 0) =>
        /\ seam_enc.error = "ascii"
        /\ seam_enc.events = <<"imread", "ascii_check">>
        /\ seam_enc.seam = <<>>
        /\ CountOf("find_seam", seam_enc.events) = 0
        /\ CountOf("embed", seam_enc.events) = 0
        /\ CountOf("imwrite", seam_enc.events) = 0
        /\ ~seam_file.exists

\* an ASCII character followed by a non-ASCII one, on a readable cover
C12_Witness ==
    /\ SeamNonAscii
    /\ seam_enc.cover.h # 0
    /\ seam_enc.message = <<65, 233>>
    /\ seam_enc.error = "ascii"
    /\ ~seam_file.exists

\* the _find_seam calls of the state: energy map, shape and seam returned
SeamCalls ==
    (IF method = "MaxEnergySeam" /\ seam_enc.called /\ seam_enc.error = "none"
     THEN {[energy |-> seam_enc.energy, h |-> seam_enc.cover.h,
            w |-> seam_enc.cover.w, seam |-> seam_enc.seam]}
     ELSE {})
    \cup
    (IF method = "MaxEnergySeam" /\ seam_dec.called
     THEN {[energy |-> seam_dec.energy, h |-> seam_file.h,
            w |-> seam_file.w, seam |-> seam_dec.seam]}
     ELSE {})

Abs(x) == IF x < 0 THEN -x ELSE x

(* C18: _find_seam returns one coordinate per column, columns 0..w-1 from  *)
(* left to right, every row within the image, and the rows of neighbouring *)
(* columns at most 1 apart.                                                *)
C18_SeamShape ==
    \A c \in SeamCalls :
        /\ Len(c.seam) = c.w
        /\ \A k \in 1..c.w :
              /\ c.seam[k][2] = k - 1
              /\ c.seam[k][1] \in 0..(c.h - 1)
        /\ \A k \in 1..(c.w - 1) : Abs(c.seam[k + 1][1] - c.seam[k][1]) <= 1

\* a seam over an image of three rows that visits all of them
C18_Witness ==
    \E c \in SeamCalls :
        /\ c.h = 3 /\ c.w = 20
        /\ \A i \in 0..2 : \E k \in 1..c.w : c.seam[k][1] = i

SetMax(S) == CHOOSE x \in S : \A y \in S : x >= y

\* the total energy along a sequence of coordinates
RECURSIVE SeamSum(_, _)
SeamSum(energy, seam) ==
    IF seam = <<>> THEN 0 ELSE energy[Head(seam)] + SeamSum(energy, Tail(seam))

\* the best total energy of a connected path that ends in each row of
\* column j, from the same quantity for column j - 1
RECURSIVE BestColumn(_, _, _, _, _)
BestColumn(energy, h, j, prev, i) ==
    IF i >= h THEN <<>>
    ELSE LET reach == { prev[m + 1] : m \in {i - 1, i, i + 1} \cap (0..(h - 1)) }
         IN  <<energy[<<i, j>>] + SetMax(reach)>>
                 \o BestColumn(energy, h, j, prev, i + 1)

RECURSIVE BestUpTo(_, _, _)
BestUpTo(energy, h, j) ==
    IF j = 0 THEN [i \in 1..h |-> energy[<<i - 1, 0>>]]
    ELSE BestColumn(energy, h, j, BestUpTo(energy, h, j - 1), 0)

\* the maximum total energy over all connected paths of one pixel per column
MaxPathEnergy(energy, h, w) ==
    LET last == BestUpTo(energy, h, w - 1)
    IN  SetMax({ last[i] : i \in 1..h })

\* widths up to which all connected paths are enumerated one by one
MaxEnumWidth == 4

\* the sequences of n rows: the paths of one pixel per column over n columns
RECURSIVE RowPaths(_, _)
RowPaths(h, n) ==
    IF n = 0 THEN {<<>>}
    ELSE { Append(path, i) : path \in RowPaths(h, n - 1), i \in 0..(h - 1) }

RowsConnected(rows) ==
    \A k \in 1..(Len(rows) - 1) : Abs(rows[k + 1] - rows[k]) <= 1

PathCoords(rows) == [k \in 1..Len(rows) |-> <<rows[k], k - 1>>]

(* C19: the energy along the seam is the maximum over all connected paths  *)
(* of one pixel per column; the seam ends in the first row of maximum      *)
(* cumulative energy of the last column, and each earlier coordinate is    *)
(* the predecessor recorded for the next one.                              *)
C19_SeamOptimal ==
    \A c \in SeamCalls :
        LET cols == forward_pass(c.energy, c.h, c.w, 1,
                                 <<first_column(c.energy, c.h, 0)>>)
            total == SeamSum(c.energy, c.seam)
        IN  /\ total = MaxPathEnergy(c.energy, c.h, c.w)
            /\ c.w <= MaxEnumWidth =>
                  \A rows \in RowPaths(c.h, c.w) :
                      RowsConnected(rows) =>
                          SeamSum(c.energy, PathCoords(rows)) <= total
            /\ \A m \in 1..c.h : cols[c.w][m].cum <= cols[c.w][c.seam[c.w][1] + 1].cum
            /\ \A k \in 1..(c.w - 1) :
                  c.seam[k][1] = cols[k + 1][c.seam[k + 1][1] + 1].path

\* a seam over three rows whose energy is more than what staying in the row
\* of the largest first entry would collect
C19_Witness ==
    \E c \in SeamCalls :
        /\ c.h = 3 /\ c.w = 4
        /\ \E k \in 1..(c.w - 1) : c.seam[k][1] # c.seam[k + 1][1]
        /\ \A i \in 0..2 :
              SeamSum(c.energy, [k \in 1..c.w |-> <<i, k - 1>>])
                  < SeamSum(c.energy, c.seam)

(* C20: encode changes nothing but the lowest bit of the channels of the   *)
(* seam pixels at the first min(len(bits), width) seam positions; there    *)
(* every channel's lowest bit is the bit of that position; all other bits  *)
(* and all other pixels are those of the cover.                            *)
C20_EmbeddingFrame ==
    (method = "MaxEnergySeam" /\ seam_enc.called /\ seam_enc.error = "none") =>
        LET bits == bin_msg_of(seam_enc.message)
            cover == Pixels(seam_enc.cover)
            n == Min(Len(bits), seam_enc.cover.w)
        IN  /\ seam_file.exists
            /\ DOMAIN seam_file.pixels = DOMAIN cover
            /\ \A idx \in 1..n :
                  \A ch \in 1..3 :
                      /\ seam_file.pixels[seam_enc.seam[idx]][ch] % 2 = bits[idx]
                      /\ seam_file.pixels[seam_enc.seam[idx]][ch] \div 2
                             = cover[seam_enc.seam[idx]][ch] \div 2
            /\ \A p \in DOMAIN cover :
                  (\A idx \in 1..n : seam_enc.seam[idx] # p)
                      => seam_file.pixels[p] = cover[p]

\* a bit string shorter than the seam, on a cover whose channels differ, so
\* that pixels on the seam past the bit string keep their value
C20_Witness ==
    /\ method = "MaxEnergySeam" /\ seam_enc.called /\ seam_enc.error = "none"
    /\ seam_enc.cover = [h |-> 2, w |-> 24, pixel |-> <<101, 64, 1>>,
                         texture |-> "flat"]
    /\ seam_enc.message = <<>>
    /\ seam_file.pixels[seam_enc.seam[1]] = <<101, 65, 1>>
    /\ seam_file.pixels[seam_enc.seam[9]] = <<100, 64, 0>>
    /\ seam_file.pixels[seam_enc.seam[17]] = <<101, 64, 1>>

\* the character of the k-th group of 8 bits of a bit string, the missing
\* bits of a group that the string ends in taken as 0
ChunkChar(bits, k) ==
    int2([m \in 1..8 |-> IF 8 * (k - 1) + m <= Len(bits)
                         THEN bits[8 * (k - 1) + m] ELSE 0])

\* one character per group of 8 bits that starts below offset n
ChunkChars(bits, n) == [k \in 1..((n + 7) \div 8) |-> ChunkChar(bits, k)]

\* end_idx is the offset of the first end marker of the bit string read along
\* the seam, or the length of the bit string when there is none
SeamEndIdx ==
    LET hits == { at \in 0..Len(seam_dec.bin_str) :
                    Occurs(seam_dec.bin_str, END_MARKER, at) }
    IN  /\ seam_dec.bin_str
             = [k \in 1..seam_file.w |-> seam_file.pixels[seam_dec.seam[k]][1] % 2]
        /\ hits = {} => seam_dec.end_idx = Len(seam_dec.bin_str)
        /\ hits # {} => /\ seam_dec.end_idx \in hits
                        /\ \A at \in hits : seam_dec.end_idx <= at

(* C21 as stated: when the end marker is found at bit offset e, the        *)
(* message is decoded from exactly the first e bits, in groups of 8 with   *)
(* the last group zero-padded, so that no bit at an offset >= e takes part *)
(* in a character; without an end marker the whole bit string is decoded.  *)
C21_TruncatedAtMarker ==
    (method = "MaxEnergySeam" /\ seam_dec.called) =>
        /\ SeamEndIdx
        /\ seam_dec.result
             = rstrip0(ChunkChars(SubSeq(seam_dec.bin_str, 1, seam_dec.end_idx),
                                  seam_dec.end_idx))

(* C21 as amended: when the end marker is found at bit offset e, one       *)
(* character is decoded for every group of 8 bits that starts below e, and *)
(* each group is taken whole from the bit string that was read (zero-      *)
(* padded only where the bit string itself ends), so that the bits from e  *)
(* up to the next multiple of 8 take part in the last character; without   *)
(* an end marker the whole bit string is decoded; trailing NUL characters  *)
(* are then removed.                                                       *)
C21_WholeChunks ==
    (method = "MaxEnergySeam" /\ seam_dec.called) =>
        /\ SeamEndIdx
        /\ seam_dec.result
             = rstrip0(ChunkChars(seam_dec.bin_str, seam_dec.end_idx))

\* the message 'A' read back along the seam of encode: the end marker is
\* found at offset 7, where it begins with the last bit of 'A'
C21_Witness ==
    /\ method = "MaxEnergySeam" /\ seam_dec.called
    /\ seam_enc.message = <<65>>
    /\ seam_dec.seam = seam_enc.seam
    /\ seam_dec.end_idx = 7
    /\ seam_dec.result = <<65>>
    /\ ChunkChars(SubSeq(seam_dec.bin_str, 1, 7), 7) = <<64>>

\* encode wrote an image for an ASCII message that fits the seam with its end
\* marker, and decode read that image
SeamHazardCase ==
    /\ method = "MaxEnergySeam"
    /\ seam_enc.called /\ seam_enc.error = "none"
    /\ seam_dec.called
    /\ \A k \in 1..Len(seam_enc.message) : seam_enc.message[k] \in 0..127
    /\ Len(seam_enc.message) <= (seam_enc.cover.w \div 8) - 1

(* C23: decode walks the maximum-energy seam of the energy map of the      *)
(* stego image, not the seam of encode; the two maps differ only next to   *)
(* pixels whose lowest bits encode changed, and the two seams can differ   *)
(* only when the maps do. C23_Witness is a cover and an ASCII message      *)
(* within capacity for which the seams differ and decode does not return   *)
(* the message.                                                            *)
C23_SeamDivergence ==
    SeamHazardCase =>
        LET cover == Pixels(seam_enc.cover)
            changed == { q \in DOMAIN cover : seam_file.pixels[q] # cover[q] }
        IN  /\ SeamSum(seam_dec.energy, seam_dec.seam)
                 = MaxPathEnergy(seam_dec.energy, seam_file.h, seam_file.w)
            /\ \A p \in DOMAIN cover :
                  seam_dec.energy[p] # seam_enc.energy[p]
                      => \E q \in changed : /\ Abs(q[1] - p[1]) <= 1
                                            /\ Abs(q[2] - p[2]) <= 1
            /\ seam_dec.seam # seam_enc.seam => seam_dec.energy # seam_enc.energy

\* the message 'A' on a cover of three rows and one colour: encode writes
\* along row 0, the written bits raise the energy of row 1, decode leaves
\* row 0 and does not return 'A'
C23_Witness ==
    /\ SeamHazardCase
    /\ seam_enc.cover = [h |-> 3, w |-> 20, pixel |-> <<100, 100, 100>>,
                         texture |-> "flat"]
    /\ seam_enc.message = <<65>>
    /\ \A k \in 1..20 : seam_enc.seam[k][1] = 0
    /\ \E k \in 1..20 : seam_dec.seam[k][1] = 1
    /\ seam_dec.seam # seam_enc.seam
    /\ seam_dec.result # seam_enc.message

(* C25: encode rejects no ASCII message for its length: on a readable     *)
(* cover the call ends without error, with no step between the ASCII check *)
(* and the energy map, and writes the output; when the bit string (8 bits  *)
(* per character, end marker, zero padding) is longer than the seam, its   *)
(* first width bits are in the lowest bits of the seam pixels, one per     *)
(* column, every pixel off the seam is the cover's, and the bits from      *)
(* offset width on are nowhere in the output.                              *)
C25_OverCapacity ==
    (/\ method = "MaxEnergySeam" /\ seam_enc.called
     /\ seam_enc.cover.h # 0
     /\ \A k \in 1..Len(seam_enc.message) : seam_enc.message[k] < 128) =>
        LET bits == bin_msg_of(seam_enc.message)
            w == seam_enc.cover.w
            cover == Pixels(seam_enc.cover)
        IN  /\ seam_enc.error = "none"
            /\ seam_enc.events = <<"imread", "ascii_check", "energy", "find_seam",
                                   "embed", "imwrite">>
            /\ seam_file.exists
            /\ Len(bits) > w =>
                  /\ Len(seam_enc.seam) = w
                  /\ [k \in 1..w |-> seam_file.pixels[seam_enc.seam[k]][1] % 2]
                        = SubSeq(bits, 1, w)
                  /\ \A k \in 1..w : \A ch \in 1..3 :
                        seam_file.pixels[seam_enc.seam[k]][ch] % 2 = bits[k]
                  /\ \A p \in DOMAIN cover :
                        /\ (\A k \in 1..w : seam_enc.seam[k] # p)
                              => seam_file.pixels[p] = cover[p]
                        /\ \A ch \in 1..3 :
                              seam_file.pixels[p][ch] \div 2 = cover[p][ch] \div 2

\* two characters on a cover 16 columns wide: the 16 bits of the characters
\* fill the seam and the end marker is dropped whole
C25_Witness ==
    /\ method = "MaxEnergySeam" /\ seam_enc.called /\ seam_enc.error = "none"
    /\ seam_enc.cover.w = 16
    /\ seam_enc.message = <<65, 127>>
    /\ Len(bin_msg_of(seam_enc.message)) = 32
    /\ seam_file.exists
    /\ [k \in 1..16 |-> seam_file.pixels[seam_enc.seam[k]][1] % 2]
          = message_bits(seam_enc.message)
    /\ find([k \in 1..16 |-> seam_file.pixels[seam_enc.seam[k]][1] % 2],
            END_MARKER) = -1

----------------------------------------------------------------------------
(* Properties of the baseline comparator *)

\* encode wrote an image and the same object decoded it
SimpleRoundTripCase ==
    /\ method = "SimpleAESLSB"
    /\ simple_enc.called /\ simple_enc.error = "none"
    /\ simple_dec.called
    /\ simple_dec.password = self_passwords[1]

(* C13: for every message that encodes successfully, decode returns the    *)
(* message with its trailing whitespace removed and nothing else changed.  *)
C13_OnlyTrailingStripped ==
    SimpleRoundTripCase =>
        /\ simple_dec.raised = "none"
        /\ simple_dec.result = py_rstrip(simple_enc.message)

(* C22: for every message passed to encode, the plaintext handed to the    *)
(* cipher is the message followed by 1 to 16 spaces, its byte length is a  *)
(* positive multiple of 16, and the encryption does not fail on length.    *)
C22_PaddedToBlock ==
    (method = "SimpleAESLSB" /\ simple_enc.called) =>
        /\ \E n \in 1..16 : simple_enc.padded = simple_enc.message \o Rep(32, n)
        /\ simple_enc.plain_len > 0
        /\ simple_enc.plain_len % AES_BLOCK = 0
        /\ simple_enc.error # "encrypt"

====
